---------------------------- MODULE Spec2Model ----------------------------
(***************************************************************************)
(* A model of the remote extension host connection                        *)
(* (class ExtensionHostConnection and its helper ConnectionData).          *)
(*                                                                         *)
(* One ExtensionHostConnection object (one reconnection token) is          *)
(* modelled.  Its public operations (start, acceptReconnection,            *)
(* shortenReconnectionGraceTimeIfNecessary) are called by the server, and  *)
(* its event handlers ('message', 'error', 'exit' of the forked process,   *)
(* 'connection' of the named pipe server, the continuation after           *)
(* `await socketDrain()`) are run by the event loop, one at a time.        *)
(***************************************************************************)
EXTENDS Integers, Sequences, FiniteSets, TLC

\* ------------------------------------------------------------------ bounds
\* calls of start, acceptReconnection and
\* shortenReconnectionGraceTimeIfNecessary made on the connection object, and
\* socket events the listeners of the relays handle, all together
MaxCalls == 2
\* 'error' events the forked processes emit, all together
MaxErrors == 1

\* ------------------------------------------------------------------ inputs
\* the remote address the client of raw handle h connects from: a client
\* that reconnects comes from a new address (a new port at least)
RemoteAddress(h) == <<"A", h>>

\* VSBuffer contents: sequences of bytes
InflateBytes == {<<120, 156, 1>>}

\* `null` of a reference (process, connection data) and of exit code / signal
null == 0
NoCode == -1
NoSignal == "none"
ExitInputs == {<<1, NoSignal>>, <<NoCode, "SIGTERM">>}

\* ----------------------------------------------------------------- sockets
\* NodeSocket wraps the raw net.Socket (here: its handle number h)
NodeSocket(h) == [kind |-> "NodeSocket", socket |-> h]

\* WebSocketNodeSocket wraps a NodeSocket and carries the framing state
WebSocketNodeSocket(h, deflate, bytes) ==
    [kind |-> "WebSocketNodeSocket", socket |-> NodeSocket(h),
     permessageDeflate |-> deflate, recordedInflateBytes |-> bytes]

\* what a caller passes along with raw handle h: a plain socket that had no
\* data read from it yet, or an upgraded socket with a first chunk
ConnectionInputs(h) ==
    {<<NodeSocket(h), << >> >>} \cup
    {<<WebSocketNodeSocket(h, TRUE, b), <<104, 105>> >> : b \in InflateBytes}

\* ------------------------------------------------------------------ base64
B64Chars ==
    <<"A","B","C","D","E","F","G","H","I","J","K","L","M","N","O","P",
      "Q","R","S","T","U","V","W","X","Y","Z","a","b","c","d","e","f",
      "g","h","i","j","k","l","m","n","o","p","q","r","s","t","u","v",
      "w","x","y","z","0","1","2","3","4","5","6","7","8","9","+","/">>

B64(n) == B64Chars[n + 1]

RECURSIVE toStringBase64(_)
\* Buffer.prototype.toString('base64'): 3 bytes -> 4 characters, '=' padding
toStringBase64(bytes) ==
    IF Len(bytes) = 0 THEN << >>
    ELSE IF Len(bytes) = 1 THEN
        <<B64(bytes[1] \div 4), B64((bytes[1] % 4) * 16), "=", "=">>
    ELSE IF Len(bytes) = 2 THEN
        <<B64(bytes[1] \div 4),
          B64((bytes[1] % 4) * 16 + bytes[2] \div 16),
          B64((bytes[2] % 16) * 4), "=">>
    ELSE
        <<B64(bytes[1] \div 4),
          B64((bytes[1] % 4) * 16 + bytes[2] \div 16),
          B64((bytes[2] % 16) * 4 + bytes[3] \div 64),
          B64(bytes[3] % 64)>>
        \o toStringBase64(SubSeq(bytes, 4, Len(bytes)))

\* ---------------------------------------------------------- ConnectionData
\* new ConnectionData(socket, initialDataChunk).  `queued` tells whether the
\* socket holds writes it has not flushed yet, `ended` whether socket.end() was
\* called; `via` and `superseded` record how the object entered the
\* connection and whether a newer one took its place undelivered.
ConnectionData(socket, initialDataChunk, queued, via) ==
    [socket |-> socket, initialDataChunk |-> initialDataChunk,
     queued |-> queued, ended |-> FALSE, via |-> via, superseded |-> FALSE]

\* toIExtHostSocketMessage that takes every socket for a NodeSocket
toIExtHostSocketMessage_plain(cd) ==
    [type |-> "VSCODE_EXTHOST_IPC_SOCKET",
     initialDataChunk |-> toStringBase64(cd.initialDataChunk),
     skipWebSocketFrames |-> TRUE,
     permessageDeflate |-> FALSE,
     inflateBytes |-> toStringBase64(<< >>)]

\* ConnectionData.toIExtHostSocketMessage
toIExtHostSocketMessage(cd) ==
    LET skipWebSocketFrames == (cd.socket.kind = "NodeSocket")
        permessageDeflate ==
            IF cd.socket.kind = "NodeSocket" THEN FALSE
            ELSE cd.socket.permessageDeflate
        inflateBytes ==
            IF cd.socket.kind = "NodeSocket" THEN << >>
            ELSE cd.socket.recordedInflateBytes
    IN  [type |-> "VSCODE_EXTHOST_IPC_SOCKET",
         initialDataChunk |-> toStringBase64(cd.initialDataChunk),
         skipWebSocketFrames |-> skipWebSocketFrames,
         permessageDeflate |-> permessageDeflate,
         inflateBytes |-> toStringBase64(inflateBytes)]

\* the raw net.Socket that is passed along with the message
rawSocket(cd) ==
    IF cd.socket.kind = "NodeSocket" THEN cd.socket.socket
    ELSE cd.socket.socket.socket

\* ------------------------------------------------------------------- state
VARIABLES
    _canSendSocket,         \* fixed by the constructor
    _disposed,
    _remoteAddress,
    _extensionHostProcess,  \* null or the index in `starts` of the process
    _connectionData,        \* null or the index in `conns`
    conns,                  \* every ConnectionData object created so far
    starts,                 \* every start() call, with the process it forked
    pending,                \* _sendSocketToExtensionHost calls awaiting drain
    sent,                   \* process.send() calls, in order
    kills,                  \* process.kill() calls, in order
    onClose,                \* number of times _onClose fired
    exitInfo,               \* what the status service holds for the token
    cleanups,               \* number of _cleanResources invocations
    rejections,             \* handlers / async calls that ended in a TypeError
    relays,                 \* _pipeSockets relays set up
    shortenCalls,           \* shortenReconnectionGraceTimeIfNecessary calls
    build,                  \* a buildUserEnvironment call, step by step
    handoff                 \* a toIExtHostSocketMessage call

vars == <<_canSendSocket, _disposed, _remoteAddress, _extensionHostProcess,
          _connectionData, conns, starts, pending, sent, kills, onClose,
          exitInfo, cleanups, rejections, relays, shortenCalls, build,
          handoff>>

\* no buildUserEnvironment call / no toIExtHostSocketMessage call is followed
NoBuild == [pc |-> "none"]
NoHandoff == [pc |-> "none"]

\* constructor
constructor ==
    /\ _canSendSocket \in BOOLEAN
    /\ _disposed = FALSE
    /\ _remoteAddress = RemoteAddress(1)
    /\ _extensionHostProcess = null
    /\ _connectionData = 1
    /\ \E in \in ConnectionInputs(1) :
          conns = <<ConnectionData(in[1], in[2], TRUE, "constructor")>>
    /\ starts = << >>
    /\ pending = {}
    /\ sent = << >>
    /\ kills = << >>
    /\ onClose = 0
    /\ exitInfo = {}
    /\ cleanups = 0
    /\ rejections = 0
    /\ relays = {}
    /\ shortenCalls = 0

Init ==
    /\ constructor
    /\ build = NoBuild
    /\ handoff = NoHandoff

\* ----------------------------------------------------------------- helpers
ConnIds == 1..Len(conns)
StartIds == 1..Len(starts)

\* a process was forked by start call i
Forked(i) == starts[i].pc = "forked"

\* the forked process of start call i still runs: no 'exit' yet, not killed
Live(i) ==
    /\ Forked(i)
    /\ ~starts[i].exited
    /\ \A k \in 1..Len(kills) : kills[k] # i

\* the 'error' events emitted so far
ErrorEvents ==
    cleanups - Cardinality({i \in StartIds : starts[i].exited})

SocketMessages == {k \in 1..Len(sent) : sent[k].msg.type = "VSCODE_EXTHOST_IPC_SOCKET"}
ReduceMessages ==
    {k \in 1..Len(sent) : sent[k].msg.type = "VSCODE_EXTHOST_IPC_REDUCE_GRACE_TIME"}

RECURSIVE SumRelayed(_)
SumRelayed(S) ==
    IF S = {} THEN 0
    ELSE LET relay == CHOOSE r \in S : TRUE
         IN  Len(relay.fromSocket) + Len(relay.fromExtHost)
             + SumRelayed(S \ {relay})

\* the 'data' events the listeners of the relays handled so far
Relayed == SumRelayed(relays)

\* the socket events the listeners of the relays handled so far: the chunks
\* passed on and the relays torn down
Handled == Relayed + Cardinality({relay \in relays : relay.isDisposed})

\* the calls made so far on the connection object, and the socket events
\* handled
Calls == Len(starts) + (Len(conns) - 1) + shortenCalls + Handled

\* ------------------------------------------------------- _cleanResources
\* without the _disposed guard
_cleanResources_unguarded ==
    /\ cleanups' = cleanups + 1
    /\ _disposed' = TRUE
    /\ IF _connectionData # null
       THEN /\ conns' = [conns EXCEPT ![_connectionData].ended = TRUE]
            /\ _connectionData' = null
       ELSE UNCHANGED <<conns, _connectionData>>
    /\ IF _extensionHostProcess # null
       THEN /\ kills' = Append(kills, _extensionHostProcess)
            /\ _extensionHostProcess' = null
       ELSE UNCHANGED <<kills, _extensionHostProcess>>
    /\ onClose' = onClose + 1

_cleanResources ==
    /\ cleanups' = cleanups + 1
    /\ IF _disposed
       THEN UNCHANGED <<_disposed, conns, _connectionData, kills,
                        _extensionHostProcess, onClose>>
       ELSE /\ _disposed' = TRUE
            /\ IF _connectionData # null
               THEN /\ conns' = [conns EXCEPT ![_connectionData].ended = TRUE]
                    /\ _connectionData' = null
               ELSE UNCHANGED <<conns, _connectionData>>
            /\ IF _extensionHostProcess # null
               THEN /\ kills' = Append(kills, _extensionHostProcess)
                    /\ _extensionHostProcess' = null
               ELSE UNCHANGED <<kills, _extensionHostProcess>>
            /\ onClose' = onClose + 1

\* ------------------------------------------- _sendSocketToExtensionHost
\* ConnectionData.socketDrain as a promise that is resolved at once
socketDrain_resolved(cd) == TRUE

\* Transport drain(): settled once every queued write has been flushed
drain(queued) == ~queued

\* ConnectionData.socketDrain: whether the promise it returned is settled
socketDrain(cd) == drain(cd.queued)

\* the call up to its `await`: a TypeError on a null connectionData rejects
\* the promise the async function returns, otherwise the call waits
_sendSocketToExtensionHost(extensionHostProcess, connectionData) ==
    IF connectionData = null
    THEN /\ rejections' = rejections + 1
         /\ pending' = pending
    ELSE /\ pending' = pending \cup
                {[proc |-> extensionHostProcess, conn |-> connectionData]}
         /\ rejections' = rejections

\* the rest of the call, once the drain promise is settled
SendSocketAfterDrain(h) ==
    /\ h \in pending
    /\ socketDrain(conns[h.conn])
    /\ pending' = pending \ {h}
    /\ sent' = Append(sent, [to |-> h.proc,
                             msg |-> toIExtHostSocketMessage(conns[h.conn]),
                             handle |-> rawSocket(conns[h.conn])])
    /\ UNCHANGED <<build, handoff, shortenCalls>>
    /\ UNCHANGED <<_canSendSocket, _disposed, _remoteAddress,
                   _extensionHostProcess, _connectionData, conns, starts,
                   kills, onClose, exitInfo, cleanups, rejections, relays>>

\* the operating system has flushed the queued writes of a socket
Flush(c) ==
    /\ c \in ConnIds
    /\ conns[c].queued
    /\ conns' = [conns EXCEPT ![c].queued = FALSE]
    /\ UNCHANGED <<build, handoff, shortenCalls>>
    /\ UNCHANGED <<_canSendSocket, _disposed, _remoteAddress,
                   _extensionHostProcess, _connectionData, starts, pending,
                   sent, kills, onClose, exitInfo, cleanups, rejections,
                   relays>>

\* ------------------------------ shortenReconnectionGraceTimeIfNecessary
\* without the test of _extensionHostProcess
shortenReconnectionGraceTimeIfNecessary_untested ==
    /\ Calls < MaxCalls
    /\ shortenCalls' = shortenCalls + 1
    /\ sent' = Append(sent,
                [to |-> _extensionHostProcess,
                 msg |-> [type |-> "VSCODE_EXTHOST_IPC_REDUCE_GRACE_TIME"],
                 handle |-> null])
    /\ UNCHANGED <<build, handoff>>
    /\ UNCHANGED <<_canSendSocket, _disposed, _remoteAddress,
                   _extensionHostProcess, _connectionData, conns, starts,
                   pending, kills, onClose, exitInfo, cleanups, rejections,
                   relays>>

shortenReconnectionGraceTimeIfNecessary ==
    /\ Calls < MaxCalls
    /\ shortenCalls' = shortenCalls + 1
    /\ IF _extensionHostProcess = null
       THEN sent' = sent
       ELSE sent' = Append(sent,
                [to |-> _extensionHostProcess,
                 msg |-> [type |-> "VSCODE_EXTHOST_IPC_REDUCE_GRACE_TIME"],
                 handle |-> null])
    /\ UNCHANGED <<build, handoff>>
    /\ UNCHANGED <<_canSendSocket, _disposed, _remoteAddress,
                   _extensionHostProcess, _connectionData, conns, starts,
                   pending, kills, onClose, exitInfo, cleanups, rejections,
                   relays>>

\* ---------------------------------------------------- acceptReconnection
\* acceptReconnection that keeps the new ConnectionData in every case
acceptReconnection_store(remoteAddress, _socket, initialDataChunk, queued) ==
    /\ Calls < MaxCalls
    /\ _remoteAddress' = remoteAddress
    /\ conns' = Append(conns, ConnectionData(_socket, initialDataChunk, queued,
                                             "stored"))
    /\ _connectionData' = Len(conns) + 1
    /\ UNCHANGED <<build, handoff, shortenCalls>>
    /\ UNCHANGED <<_canSendSocket, _disposed, _extensionHostProcess, starts,
                   pending, rejections, sent, kills, onClose, exitInfo,
                   cleanups, relays>>

acceptReconnection(remoteAddress, _socket, initialDataChunk, queued) ==
    /\ Calls < MaxCalls
    /\ _remoteAddress' = remoteAddress
    /\ LET connectionData == Len(conns) + 1
           via == IF _extensionHostProcess = null THEN "stored"
                  ELSE IF starts[_extensionHostProcess].readySent
                       THEN "sent after ready"
                       ELSE "sent before ready"
           object == ConnectionData(_socket, initialDataChunk, queued, via)
       IN  IF _extensionHostProcess = null
           THEN \* The extension host didn't even start up yet
                /\ conns' =
                     IF _connectionData = null
                     THEN Append(conns, object)
                     ELSE Append([conns EXCEPT
                                    ![_connectionData].superseded = TRUE],
                                 object)
                /\ _connectionData' = connectionData
                /\ UNCHANGED <<pending, rejections>>
           ELSE /\ conns' = Append(conns, object)
                /\ _sendSocketToExtensionHost(_extensionHostProcess,
                                              connectionData)
                /\ UNCHANGED _connectionData
    /\ UNCHANGED <<build, handoff, shortenCalls>>
    /\ UNCHANGED <<_canSendSocket, _disposed, _extensionHostProcess, starts,
                   sent, kills, onClose, exitInfo, cleanups, relays>>

\* ------------------------------------------------------------------ start
\* a start() call: it runs up to `await buildUserEnvironment(...)`.  The record
\* holds the call's position (pc), its named pipe server, and the process it
\* forks: whether it exited, the ready message it posted and the
\* messageListener registered on it.
start ==
    /\ Calls < MaxCalls
    /\ starts' = Append(starts,
            [pc |-> "env", server |-> "none", exited |-> FALSE,
             readySent |-> FALSE, readyInFlight |-> FALSE,
             messageListener |-> FALSE])
    /\ UNCHANGED <<build, handoff, shortenCalls>>
    /\ UNCHANGED <<_canSendSocket, _disposed, _remoteAddress,
                   _extensionHostProcess, _connectionData, conns, pending,
                   sent, kills, onClose, exitInfo, cleanups, rejections,
                   relays>>

\* cp.fork and the registration of the handlers, which run without a pause
Fork(i) ==
    /\ _extensionHostProcess' = i
    /\ starts' = [starts EXCEPT ![i].pc = "forked",
                                ![i].server =
                                    IF _canSendSocket THEN "none" ELSE "listening",
                                ![i].messageListener = _canSendSocket]

\* buildUserEnvironment resolved: with _canSendSocket the call runs on to the
\* fork, otherwise it waits for _listenOnPipe
StartEnvironmentBuilt(i) ==
    /\ i \in StartIds
    /\ starts[i].pc = "env"
    /\ IF _canSendSocket
       THEN Fork(i)
       ELSE /\ starts' = [starts EXCEPT ![i].pc = "listen"]
            /\ UNCHANGED _extensionHostProcess
    /\ UNCHANGED <<build, handoff, shortenCalls>>
    /\ UNCHANGED <<_canSendSocket, _disposed, _remoteAddress, _connectionData,
                   conns, pending, sent, kills, onClose, exitInfo, cleanups,
                   rejections, relays>>

\* _listenOnPipe resolved: the pipe server listens, the call runs on to the fork
StartListening(i) ==
    /\ i \in StartIds
    /\ starts[i].pc = "listen"
    /\ Fork(i)
    /\ UNCHANGED <<build, handoff, shortenCalls>>
    /\ UNCHANGED <<_canSendSocket, _disposed, _remoteAddress, _connectionData,
                   conns, pending, sent, kills, onClose, exitInfo, cleanups,
                   rejections, relays>>

\* the try block throws (buildUserEnvironment or _listenOnPipe rejects, or
\* cp.fork throws): the catch block writes to the console and start() returns
StartCatch(i, stage) ==
    /\ i \in StartIds
    /\ \/ /\ stage = "env"
          /\ starts[i].pc = "env"
          /\ starts' = [starts EXCEPT ![i].pc = "failed"]
       \/ /\ stage = "listen"
          /\ starts[i].pc = "listen"
          /\ starts' = [starts EXCEPT ![i].pc = "failed"]
       \/ /\ stage = "fork"
          /\ starts[i].pc = "env"
          /\ _canSendSocket
          /\ starts' = [starts EXCEPT ![i].pc = "failed"]
       \/ /\ stage = "fork"
          /\ starts[i].pc = "listen"
          /\ starts' = [starts EXCEPT ![i].pc = "failed",
                                      ![i].server = "listening"]
    /\ UNCHANGED <<build, handoff, shortenCalls>>
    /\ UNCHANGED <<_canSendSocket, _disposed, _remoteAddress,
                   _extensionHostProcess, _connectionData, conns, pending,
                   sent, kills, onClose, exitInfo, cleanups, rejections,
                   relays>>

\* ------------------------------------------------ the forked process acts
\* the extension host finished its bootstrap and posts VSCODE_EXTHOST_IPC_READY
ExtensionHostReady(i) ==
    /\ i \in StartIds
    /\ Live(i)
    /\ _canSendSocket
    /\ ~starts[i].readySent
    /\ starts' = [starts EXCEPT ![i].readySent = TRUE,
                                ![i].readyInFlight = TRUE]
    /\ UNCHANGED <<build, handoff, shortenCalls>>
    /\ UNCHANGED <<_canSendSocket, _disposed, _remoteAddress,
                   _extensionHostProcess, _connectionData, conns, pending,
                   sent, kills, onClose, exitInfo, cleanups, rejections,
                   relays>>

\* ------------------------------------------------------ handlers of start
\* messageListener of start call i receives VSCODE_EXTHOST_IPC_READY
messageListener(i) ==
    /\ i \in StartIds
    /\ starts[i].readyInFlight
    /\ starts[i].messageListener
    /\ IF _extensionHostProcess = null
       THEN \* this._extensionHostProcess!.removeListener throws a TypeError
            /\ starts' = [starts EXCEPT ![i].readyInFlight = FALSE]
            /\ rejections' = rejections + 1
            /\ UNCHANGED <<pending, _connectionData>>
       ELSE /\ starts' = [starts EXCEPT
                            ![i].readyInFlight = FALSE,
                            ![i].messageListener =
                                IF _extensionHostProcess = i THEN FALSE ELSE @]
            /\ _sendSocketToExtensionHost(_extensionHostProcess,
                                          _connectionData)
            /\ _connectionData' = null
    /\ UNCHANGED <<build, handoff, shortenCalls>>
    /\ UNCHANGED <<_canSendSocket, _disposed, _remoteAddress,
                   _extensionHostProcess, conns, sent, kills, onClose,
                   exitInfo, cleanups, relays>>

\* IExtensionHostStatusService.setExitInfo for the reconnection token
setExitInfo_codeOnly(code, signal) == {[code |-> code, signal |-> NoSignal]}

setExitInfo(code, signal) == {[code |-> code, signal |-> signal]}

\* the 'error' handler of the process of start call i
OnError(i) ==
    /\ i \in StartIds
    /\ Forked(i)
    /\ ErrorEvents < MaxErrors
    /\ starts' = starts
    /\ _cleanResources
    /\ UNCHANGED <<build, handoff, shortenCalls>>
    /\ UNCHANGED <<_canSendSocket, _remoteAddress, pending, sent, exitInfo,
                   rejections, relays>>

\* the 'exit' handler of the process of start call i
OnExit(i, code, signal) ==
    /\ i \in StartIds
    /\ Forked(i)
    /\ ~starts[i].exited
    /\ starts' = [starts EXCEPT ![i].exited = TRUE]
    /\ exitInfo' = setExitInfo(code, signal)
    /\ _cleanResources
    /\ UNCHANGED <<build, handoff, shortenCalls>>
    /\ UNCHANGED <<_canSendSocket, _remoteAddress, pending, sent, rejections,
                   relays>>

\* _pipeSockets that does not write the initial chunk
_pipeSockets_noReplay(extHostSocket, connectionData) ==
    IF connectionData = null
    THEN /\ rejections' = rejections + 1
         /\ relays' = relays
    ELSE /\ relays' = relays \cup
               {[extHostSocket |-> extHostSocket, conn |-> connectionData,
                 isDisposed |-> FALSE, socketDisposed |-> FALSE,
                 destroyed |-> FALSE,
                 fromSocket |-> << >>, fromExtHost |-> << >>,
                 toExtHost |-> << >>, toSocket |-> << >>]}
         /\ rejections' = rejections

\* _pipeSockets up to its end: the relay is wired and the initial chunk is
\* written to the extension host's socket.  `isDisposed` is the state of the
\* DisposableStore (with it, of the listeners it holds), `socketDisposed` and
\* `destroyed` tell whether the relay disposed connectionData.socket and
\* destroyed extHostSocket; `toExtHost` and `toSocket` are the buffers written
\* to extHostSocket and to connectionData.socket, one entry per write() call;
\* `fromSocket` and `fromExtHost` are the buffers the 'data' events of the two
\* sockets carried while the listeners were registered.
_pipeSockets(extHostSocket, connectionData) ==
    IF connectionData = null
    THEN /\ rejections' = rejections + 1
         /\ relays' = relays
    ELSE /\ relays' = relays \cup
               {[extHostSocket |-> extHostSocket, conn |-> connectionData,
                 isDisposed |-> FALSE, socketDisposed |-> FALSE,
                 destroyed |-> FALSE,
                 fromSocket |-> << >>, fromExtHost |-> << >>,
                 toExtHost |->
                    IF Len(conns[connectionData].initialDataChunk) > 0
                    THEN <<conns[connectionData].initialDataChunk>>
                    ELSE << >>,
                 toSocket |-> << >>]}
         /\ rejections' = rejections

\* the socket the k-th connection to the server of start call i yields
ExtHostSocket(i) ==
    <<i, Cardinality({relay \in relays : relay.extHostSocket[1] = i}) + 1>>

\* the 'connection' handler of the named pipe server of start call i
OnConnection(i) ==
    /\ i \in StartIds
    /\ Forked(i)
    /\ starts[i].server = "listening"
    /\ starts' = [starts EXCEPT ![i].server = "closed"]
    /\ _pipeSockets(ExtHostSocket(i), _connectionData)
    /\ UNCHANGED <<build, handoff, shortenCalls>>
    /\ UNCHANGED <<_canSendSocket, _disposed, _remoteAddress,
                   _extensionHostProcess, _connectionData, conns, pending,
                   sent, kills, onClose, exitInfo, cleanups>>

\* a connection attempt on the pipe name of a server that was closed: the
\* operating system refuses it, no 'connection' event is emitted
ConnectionRefused(i) ==
    /\ i \in StartIds
    /\ starts[i].server = "closed"
    /\ UNCHANGED vars

\* ------------------------------------------------- handlers of _pipeSockets
\* the buffer the n-th 'data' event carries
Chunk(n) == <<n>>

\* a socket of the relay emits 'data' with buffer e: the event reaches the
\* listener of the relay unless the DisposableStore removed it
emitted(relay, side, e) ==
    IF relay.isDisposed THEN relay
    ELSE [relay EXCEPT ![side] = Append(@, e)]

\* the relays wired to the socket of ConnectionData c
RelaysOf(c) == {relay \in relays : relay.conn = c}

\* a dispose() that leaves extHostSocket alone
dispose_socketOnly(relay) ==
    IF relay.isDisposed THEN relay
    ELSE [relay EXCEPT !.isDisposed = TRUE, !.socketDisposed = TRUE]

\* DisposableStore.dispose(): connectionData.socket is disposed, extHostSocket
\* destroyed and every listener removed; a second call returns at once
dispose(relay) ==
    IF relay.isDisposed THEN relay
    ELSE [relay EXCEPT !.isDisposed = TRUE, !.socketDisposed = TRUE,
                       !.destroyed = TRUE]

stopAndCleanup(relay) == dispose(relay)

\* a listener the DisposableStore holds runs only until the store is disposed
\* connectionData.socket.onEnd / onClose, extHostSocket 'end' / 'close' / 'error'
onStop(relay) == IF relay.isDisposed THEN relay ELSE stopAndCleanup(relay)

\* connectionData.socket.onData((e) => extHostSocket.write(e.buffer))
onSocketData(relay, e) ==
    IF relay.isDisposed THEN relay
    ELSE [relay EXCEPT !.toExtHost = Append(@, e)]

\* extHostSocket 'data': connectionData.socket.write(VSBuffer.wrap(e))
onExtHostData(relay, e) ==
    IF relay.isDisposed THEN relay
    ELSE [relay EXCEPT !.toSocket = Append(@, e)]

\* the socket of ConnectionData c emits 'data'
SocketData(c) ==
    /\ c \in ConnIds
    /\ RelaysOf(c) # {}
    /\ (\E relay \in RelaysOf(c) : ~relay.isDisposed) => Calls < MaxCalls
    /\ relays' = {IF relay \in RelaysOf(c)
                   THEN emitted(onSocketData(relay, Chunk(Relayed + 1)),
                                "fromSocket", Chunk(Relayed + 1))
                   ELSE relay : relay \in relays}
    /\ UNCHANGED <<build, handoff, shortenCalls>>
    /\ UNCHANGED <<_canSendSocket, _disposed, _remoteAddress,
                   _extensionHostProcess, _connectionData, conns, starts,
                   pending, sent, kills, onClose, exitInfo, cleanups,
                   rejections>>

\* a handler of 'end' / 'close' that cleans the connection up as well
SocketStop_closing(c, event) ==
    /\ c \in ConnIds
    /\ RelaysOf(c) # {}
    /\ event \in {"end", "close"}
    /\ (\E relay \in RelaysOf(c) : ~relay.isDisposed) => Calls < MaxCalls
    /\ relays' = {IF relay \in RelaysOf(c) THEN onStop(relay)
                   ELSE relay : relay \in relays}
    /\ _disposed' = TRUE
    /\ onClose' = onClose + 1
    /\ UNCHANGED <<build, handoff, shortenCalls>>
    /\ UNCHANGED <<_canSendSocket, _remoteAddress, _extensionHostProcess,
                   _connectionData, conns, starts, pending, sent, kills,
                   exitInfo, cleanups, rejections>>

\* the socket of ConnectionData c emits 'end' or 'close'
SocketStop(c, event) ==
    /\ c \in ConnIds
    /\ RelaysOf(c) # {}
    /\ event \in {"end", "close"}
    /\ (\E relay \in RelaysOf(c) : ~relay.isDisposed) => Calls < MaxCalls
    /\ relays' = {IF relay \in RelaysOf(c) THEN onStop(relay)
                   ELSE relay : relay \in relays}
    /\ UNCHANGED <<build, handoff, shortenCalls>>
    /\ UNCHANGED <<_canSendSocket, _disposed, _remoteAddress,
                   _extensionHostProcess, _connectionData, conns, starts,
                   pending, sent, kills, onClose, exitInfo, cleanups,
                   rejections>>

\* the extHostSocket of relay r emits 'data'
ExtHostData(r) ==
    /\ r \in relays
    /\ ~r.isDisposed => Calls < MaxCalls
    /\ relays' = (relays \ {r}) \cup
                    {emitted(onExtHostData(r, Chunk(Relayed + 1)),
                             "fromExtHost", Chunk(Relayed + 1))}
    /\ UNCHANGED <<build, handoff, shortenCalls>>
    /\ UNCHANGED <<_canSendSocket, _disposed, _remoteAddress,
                   _extensionHostProcess, _connectionData, conns, starts,
                   pending, sent, kills, onClose, exitInfo, cleanups,
                   rejections>>

\* the extHostSocket of relay r emits 'end', 'close' or 'error'
ExtHostStop(r, event) ==
    /\ r \in relays
    /\ event \in {"end", "close", "error"}
    /\ ~r.isDisposed => Calls < MaxCalls
    /\ relays' = (relays \ {r}) \cup {onStop(r)}
    /\ UNCHANGED <<build, handoff, shortenCalls>>
    /\ UNCHANGED <<_canSendSocket, _disposed, _remoteAddress,
                   _extensionHostProcess, _connectionData, conns, starts,
                   pending, sent, kills, onClose, exitInfo, cleanups,
                   rejections>>

\* ------------------------------------------ output of the forked process
\* stdout / stderr 'data' and the '__$console' message of the process of
\* start call i: each handler writes to the log and nothing else
OnOutput(i) ==
    /\ i \in StartIds
    /\ Forked(i)
    /\ UNCHANGED vars

\* --------------------------------------------------- buildUserEnvironment
\* An environment object is the sequence of its <<key, value>> entries in
\* insertion order (the order of Object.keys); a key occurs once.  Keys and
\* values are strings, the two values below stand for null and undefined.
nullValue == "<null>"
undefined == "<undefined>"

Keys(env) == [i \in 1..Len(env) |-> env[i][1]]

\* env[key]
Get(env, key) ==
    IF \E i \in 1..Len(env) : env[i][1] = key
    THEN env[CHOOSE i \in 1..Len(env) : env[i][1] = key][2]
    ELSE undefined

\* env[key] = value: a key the object has keeps its place
Put(env, key, value) ==
    IF \E i \in 1..Len(env) : env[i][1] = key
    THEN [i \in 1..Len(env) |->
            IF env[i][1] = key THEN <<key, value>> ELSE env[i]]
    ELSE Append(env, <<key, value>>)

RECURSIVE Spread(_, _)
\* { ...target, ...source }
Spread(target, source) ==
    IF source = << >> THEN target
    ELSE Spread(Put(target, Head(source)[1], Head(source)[2]), Tail(source))

\* String.prototype.toLowerCase on the keys that occur
toLowerCase(key) ==
    CASE key = "PATH" -> "path"
      [] key = "Path" -> "path"
      [] key = "BROWSER" -> "browser"
      [] key = "X" -> "x"
      [] key = "VSCODE_LOG_NATIVE" -> "vscode_log_native"
      [] key = "VSCODE_AMD_ENTRYPOINT" -> "vscode_amd_entrypoint"
      [] key = "VSCODE_PIPE_LOGGING" -> "vscode_pipe_logging"
      [] key = "VSCODE_VERBOSE_LOGGING" -> "vscode_verbose_logging"
      [] key = "VSCODE_HANDLES_UNCAUGHT_ERRORS" -> "vscode_handles_uncaught_errors"
      [] key = "VSCODE_LOG_STACK" -> "vscode_log_stack"
      [] key = "VSCODE_NLS_CONFIG" -> "vscode_nls_config"

\* the first key of env that equals `key` ignoring case, or `key` itself
CaseInsensitiveKey(env, key) ==
    LET pathKeys == SelectSeq(Keys(env),
                        LAMBDA k : toLowerCase(k) = toLowerCase(key))
    IN  IF Len(pathKeys) > 0 THEN pathKeys[1] ELSE key

readCaseInsensitive(env, key) == Get(env, CaseInsensitiveKey(env, key))

\* setCaseInsensitive that sets `key` as it is written
setCaseInsensitive_exact(env, key, value) == Put(env, key, value)

setCaseInsensitive(env, key, value) ==
    Put(env, CaseInsensitiveKey(env, key), value)

\* removeNulls that deletes nothing
removeNulls_none(env) == env

removeNulls(env) == SelectSeq(env, LAMBDA entry : entry[2] # nullValue)

\* String(isDebug)
String(b) == IF b THEN "true" ELSE "false"

\* the truthiness of a string, null or undefined
Truthy(value) == value \notin {undefined, nullValue, ""}

\* path.delimiter and path.join of posix
delimiter == ":"
join(a, b) == a \o "/" \o b

\* JSON.stringify(nlsConfig, undefined, 0)
NlsConfig == "{}"

\* the variables the extension host runs with in every case
FixedFlags(isDebug) ==
    << <<"VSCODE_LOG_NATIVE", String(isDebug)>>,
       <<"VSCODE_AMD_ENTRYPOINT", "vs/workbench/api/node/extensionHostProcess">>,
       <<"VSCODE_PIPE_LOGGING", "true">>,
       <<"VSCODE_VERBOSE_LOGGING", "true">>,
       <<"VSCODE_HANDLES_UNCAUGHT_ERRORS", "true">>,
       <<"VSCODE_LOG_STACK", "false">>,
       <<"VSCODE_NLS_CONFIG", NlsConfig>> >>

\* the overlay with the overrides below the fixed flags
Overlay_overridesFirst(processEnv, userShellEnv, isDebug, startParamsEnv) ==
    Spread(Spread(Spread(processEnv, userShellEnv), startParamsEnv),
           FixedFlags(isDebug))

\* { ...processEnv, ...userShellEnv, ...{ VSCODE_... }, ...startParamsEnv }
Overlay(processEnv, userShellEnv, isDebug, startParamsEnv) ==
    Spread(Spread(Spread(processEnv, userShellEnv), FixedFlags(isDebug)),
           startParamsEnv)

binFolder(environmentService) ==
    IF environmentService.isBuilt
    THEN join(environmentService.appRoot, "bin")
    ELSE join(join(join(environmentService.appRoot, "resources"), "server"),
              "bin-dev")

\* contains the `code` command that can talk to the remote server
remoteCliBinFolder(environmentService) ==
    join(binFolder(environmentService), "remote-cli")

\* the helper that opens a browser on the local machine
BrowserHelper(environmentService) ==
    join(join(binFolder(environmentService), "helpers"), "browser.sh")

\* the PATH assignment
WithPath(env, environmentService) ==
    LET PATH == readCaseInsensitive(env, "PATH")
    IN  setCaseInsensitive(env, "PATH",
            IF Truthy(PATH)
            THEN remoteCliBinFolder(environmentService) \o delimiter \o PATH
            ELSE remoteCliBinFolder(environmentService))

\* the BROWSER assignment
WithBrowser(env, environmentService) ==
    IF ~environmentService.args["without-browser-env-var"]
    THEN Put(env, "BROWSER", BrowserHelper(environmentService))
    ELSE env

\* a try block that hands on what the resolution had collected when it failed
ResolveShellEnv_partial(withUserShellEnvironment, shell) ==
    IF withUserShellEnvironment
    THEN [userShellEnv |-> shell.env,
          logged |-> IF shell.rejected THEN 1 ELSE 0]
    ELSE [userShellEnv |-> << >>, logged |-> 0]

\* the try / catch around getResolvedShellEnv: the environment the function
\* goes on with, and the errors it wrote to the log
ResolveShellEnv(withUserShellEnvironment, shell) ==
    IF withUserShellEnvironment
    THEN IF shell.rejected
         THEN [userShellEnv |-> << >>, logged |-> 1]
         ELSE [userShellEnv |-> shell.env, logged |-> 0]
    ELSE [userShellEnv |-> << >>, logged |-> 0]

\* the function from `const processEnv = process.env` on
Environment(startParamsEnv, userShellEnv, isDebug, environmentService, processEnv) ==
    removeNulls(
        WithBrowser(
            WithPath(Overlay(processEnv, userShellEnv, isDebug, startParamsEnv),
                     environmentService),
            environmentService))

\* what buildUserEnvironment resolves to when getNLSConfiguration resolves;
\* process.env and the outcome of getResolvedShellEnv are passed in `process`
buildUserEnvironment(startParamsEnv, withUserShellEnvironment, isDebug, environmentService, process) ==
    Environment(startParamsEnv,
                ResolveShellEnv(withUserShellEnvironment,
                                process.shell).userShellEnv,
                isDebug, environmentService, process.env)

\* ---- the inputs of a buildUserEnvironment call
\* process.env: every value is a string
ProcessEnvs ==
    { << >>,
      << <<"PATH", "/bin">> >>,
      << <<"Path", "/bin">> >>,
      << <<"Path", "">> >>,
      << <<"X", "p">>, <<"PATH", "/bin">>, <<"BROWSER", "p">> >> }

\* what getResolvedShellEnv does: it resolves to an environment, or rejects
\* (`env` is then what it had collected)
ShellResults ==
    { [rejected |-> FALSE, env |-> << >>],
      [rejected |-> FALSE, env |-> << <<"PATH", "/sh">>, <<"X", "s">> >>],
      [rejected |-> FALSE, env |-> << <<"Path", "/sh">> >>],
      [rejected |-> TRUE, env |-> << <<"PATH", "/sh">>, <<"X", "s">> >>] }

\* startParams.env: a value is a string or null
StartParamsEnvs ==
    { << >>,
      << <<"X", "o">> >>,
      << <<"X", nullValue>> >>,
      << <<"PATH", "/o">> >>,
      << <<"Path", "/o">> >>,
      << <<"PATH", nullValue>> >>,
      << <<"BROWSER", "o">> >>,
      << <<"BROWSER", nullValue>> >>,
      << <<"VSCODE_LOG_STACK", "o">>, <<"VSCODE_PIPE_LOGGING", nullValue>> >> }

EnvironmentServices ==
    { [isBuilt |-> b, appRoot |-> "/app",
       args |-> [x \in {"without-browser-env-var"} |-> w]] :
      b \in BOOLEAN, w \in BOOLEAN }

\* the fields of the connection object: no pure function reads them
connection == <<_canSendSocket, _disposed, _remoteAddress,
                _extensionHostProcess, _connectionData, conns, starts,
                pending, sent, kills, onClose, exitInfo, cleanups,
                rejections, relays, shortenCalls>>

\* a call of buildUserEnvironment, before its first await
InitEnv ==
    /\ constructor
    /\ _canSendSocket
    /\ conns[1].socket.kind = "NodeSocket"
    /\ handoff = NoHandoff
    /\ \E startParamsEnv \in StartParamsEnvs, with \in BOOLEAN,
          isDebug \in BOOLEAN, environmentService \in EnvironmentServices,
          processEnv \in ProcessEnvs, shell \in ShellResults :
          build = [pc |-> "getNLSConfiguration",
                   startParamsEnv |-> startParamsEnv,
                   withUserShellEnvironment |-> with,
                   isDebug |-> isDebug,
                   environmentService |-> environmentService,
                   process |-> [env |-> processEnv, shell |-> shell],
                   userShellEnv |-> << >>, logged |-> 0, env |-> << >>]

\* `await getNLSConfiguration(...)` resolves, or rejects and with it the call
BuildNls(resolved) ==
    /\ build.pc = "getNLSConfiguration"
    /\ resolved \in BOOLEAN
    /\ build' = [build EXCEPT !.pc = IF resolved THEN "getResolvedShellEnv"
                                     ELSE "rejected"]
    /\ UNCHANGED <<connection, handoff>>

\* the try / catch around `await getResolvedShellEnv(...)`
BuildShell ==
    /\ build.pc = "getResolvedShellEnv"
    /\ LET r == ResolveShellEnv(build.withUserShellEnvironment,
                                build.process.shell)
       IN  build' = [build EXCEPT !.pc = "env",
                                  !.userShellEnv = r.userShellEnv,
                                  !.logged = r.logged]
    /\ UNCHANGED <<connection, handoff>>

\* the rest of the function, which runs without a pause
BuildReturn ==
    /\ build.pc = "env"
    /\ build' = [build EXCEPT
                    !.pc = "returned",
                    !.env = Environment(build.startParamsEnv,
                                        build.userShellEnv, build.isDebug,
                                        build.environmentService,
                                        build.process.env)]
    /\ UNCHANGED <<connection, handoff>>

NextEnv ==
    \/ \E resolved \in BOOLEAN : BuildNls(resolved)
    \/ BuildShell
    \/ BuildReturn

SpecEnv == InitEnv /\ [][NextEnv]_vars

\* ------------------------------------------- toIExtHostSocketMessage alone
\* the buffers of the ConnectionData objects toIExtHostSocketMessage is
\* called on
HandoffChunks ==
    {<< >>, <<104>>, <<104, 105>>, <<104, 105, 33>>, <<255, 0, 16, 128>>,
     <<0, 0, 0, 0, 0>>, <<71, 69, 84, 32, 47, 10>>}
HandoffInflateBytes == {<< >>, <<120>>, <<120, 156, 1>>, <<1, 2, 3, 4>>}

HandoffSockets ==
    {NodeSocket(1)} \cup
    {WebSocketNodeSocket(1, deflate, bytes) :
        deflate \in BOOLEAN, bytes \in HandoffInflateBytes}

\* a ConnectionData object, before toIExtHostSocketMessage is called on it
InitMessage ==
    /\ constructor
    /\ _canSendSocket
    /\ conns[1].socket.kind = "NodeSocket"
    /\ build = NoBuild
    /\ \E socket \in HandoffSockets, initialDataChunk \in HandoffChunks :
          handoff = [pc |-> "called",
                     cd |-> ConnectionData(socket, initialDataChunk, FALSE,
                                           "constructor"),
                     message |-> {}]

\* the call returns its message
HandoffReturn ==
    /\ handoff.pc = "called"
    /\ handoff' = [handoff EXCEPT
                     !.pc = "returned",
                     !.message = {toIExtHostSocketMessage(handoff.cd)}]
    /\ UNCHANGED <<connection, build>>

NextMessage == HandoffReturn

SpecMessage == InitMessage /\ [][NextMessage]_vars

\* -------------------------------------------------------------------- Next
Next ==
    \/ start
    \/ \E i \in StartIds : StartEnvironmentBuilt(i)
    \/ \E i \in StartIds : StartListening(i)
    \/ \E i \in StartIds, stage \in {"env", "listen", "fork"} : StartCatch(i, stage)
    \/ \E i \in StartIds : ExtensionHostReady(i)
    \/ \E i \in StartIds : messageListener(i)
    \/ \E i \in StartIds : OnError(i)
    \/ \E i \in StartIds, e \in ExitInputs : OnExit(i, e[1], e[2])
    \/ \E i \in StartIds : OnConnection(i)
    \/ \E i \in StartIds : ConnectionRefused(i)
    \/ \E c \in ConnIds : SocketData(c)
    \/ \E c \in ConnIds, event \in {"end", "close"} : SocketStop(c, event)
    \/ \E r \in relays : ExtHostData(r)
    \/ \E r \in relays, event \in {"end", "close", "error"} :
         ExtHostStop(r, event)
    \/ \E i \in StartIds : OnOutput(i)
    \/ \E h \in pending : SendSocketAfterDrain(h)
    \/ \E c \in ConnIds : Flush(c)
    \/ shortenReconnectionGraceTimeIfNecessary
    \/ \E in \in ConnectionInputs(Len(conns) + 1) :
         acceptReconnection(RemoteAddress(Len(conns) + 1), in[1], in[2], TRUE)

Spec == Init /\ [][Next]_vars

\* what the event loop guarantees: a 'message' event that was emitted is
\* handled, and the continuation of an await whose promise is settled runs;
\* and the queued writes of a socket reach the operating system
Fairness ==
    /\ \A i \in 1..MaxCalls : WF_vars(messageListener(i))
    /\ \A c \in 1..(MaxCalls + 1) : WF_vars(Flush(c))
    /\ \A p \in 1..MaxCalls, c \in 1..(MaxCalls + 1) :
          WF_vars(SendSocketAfterDrain([proc |-> p, conn |-> c]))

SpecLive == Spec /\ Fairness
\* ================================================================= claims
\* the handler of a process 'exit' or 'error' event ran in this step, that is,
\* _cleanResources was invoked
CleanupInvoked == cleanups' = cleanups + 1

\* the socket messages that carry the raw socket of ConnectionData c
MessagesFor(c) == {k \in SocketMessages : sent[k].handle = c}

\* C1: cleanup is idempotent.  However many times _cleanResources has been
\* invoked (from 'exit' and 'error' events in any order), onClose has fired
\* exactly once and kill() was called at most once; the first invocation
\* kills the process the connection references, later ones change nothing.
C1_CleanupIdempotent ==
    /\ [](/\ cleanups = 0 => (onClose = 0 /\ kills = << >> /\ ~_disposed)
          /\ cleanups >= 1 => (onClose = 1 /\ Len(kills) <= 1 /\ _disposed))
    /\ [][CleanupInvoked =>
            /\ (cleanups = 0 /\ _extensionHostProcess # null)
                  => kills' = <<_extensionHostProcess>>
            /\ cleanups >= 1
                  => UNCHANGED <<_disposed, _connectionData, conns, kills,
                                 _extensionHostProcess, onClose>>]_vars

\* C1 witness: three invocations, from an 'error' and from 'exit' events, and
\* still one closure notification and one kill
C1_Witness ==
    /\ cleanups >= 3
    /\ ErrorEvents > 0
    /\ \E i \in StartIds : starts[i].exited
    /\ onClose = 1
    /\ Len(kills) = 1

\* ------------------------------------------------------------------ C2
\* a call of acceptReconnection, start or
\* shortenReconnectionGraceTimeIfNecessary (one that sends) happens in this step
AcceptStep == Len(conns') = Len(conns) + 1
StartStep == Len(starts') = Len(starts) + 1
ShortenStep == Cardinality(ReduceMessages') > Cardinality(ReduceMessages)

\* the processes forked so far
ForkedSet == {i \in StartIds : Forked(i)}

\* C2: once _disposed is set it stays set, and a lifecycle operation invoked
\* afterwards (start, acceptReconnection,
\* shortenReconnectionGraceTimeIfNecessary, cleanup) changes no field of the
\* connection, forks no process and sends no message.
C2_DisposedIsFinal ==
    /\ [][_disposed => _disposed']_vars
    /\ [][(_disposed /\ (AcceptStep \/ StartStep \/ ShortenStep \/ CleanupInvoked))
            => (/\ UNCHANGED <<_remoteAddress, _extensionHostProcess,
                               _connectionData, sent>>
                /\ ForkedSet' = ForkedSet)]_vars

\* ------------------------------------------------------------------ C3
\* C3: with _canSendSocket, every VSCODE_EXTHOST_IPC_SOCKET message went to a
\* process that had posted VSCODE_EXTHOST_IPC_READY before the message was sent.
C3_NoHandoffBeforeReady ==
    _canSendSocket =>
        \A k \in SocketMessages : starts[sent[k].to].readySent

\* ------------------------------------------------------------------ C4
\* the messageListener handled the ready message of a process in this step
ReadyHandled ==
    \E i \in StartIds : starts[i].readyInFlight /\ ~starts'[i].readyInFlight

\* the (re)connections that arrived before the process they met, if any, had
\* posted its ready message
BeforeReady == {c \in ConnIds : conns[c].via # "sent after ready"}

\* C4: of the (re)connections that arrived before the process was ready, only
\* the ConnectionData of the most recent one is handed over when readiness is
\* reached; none of an earlier one is handed over then.
C4_OnlyLatestAtReadiness ==
    [][ReadyHandled =>
          \A h \in pending' \ pending :
              \A c \in BeforeReady : c <= h.conn]_vars

\* ------------------------------------------------------------------ C5
\* C5: every ConnectionData that a newer reconnection replaced before it was
\* delivered has had its socket closed.
C5_SupersededClosed ==
    \A c \in ConnIds : conns[c].superseded => conns[c].ended

\* ------------------------------------------------------------------ C6
\* C6: drain precedes handoff.  A VSCODE_EXTHOST_IPC_SOCKET message is sent
\* only in the continuation of a pending _sendSocketToExtensionHost call
\* whose socket has no queued write left, and no socket that was handed over
\* holds unflushed writes.
C6_DrainPrecedesHandoff ==
    /\ [](\A k \in SocketMessages : ~conns[sent[k].handle].queued)
    /\ [][\A k \in SocketMessages' \ SocketMessages :
            /\ ~conns[sent'[k].handle].queued
            /\ [proc |-> sent'[k].to, conn |-> sent'[k].handle] \in pending
         ]_vars

\* C6 witness: a socket that had queued writes when it was accepted has been
\* handed over
C6_Witness ==
    \E k \in SocketMessages : ~conns[sent[k].handle].queued

\* ------------------------------------------------------------------ C7
\* C7: when start() failed to create the process, the connection is closed:
\* _disposed is set, onClose fired once, and the held socket was ended.
C7_SpawnFailureCloses ==
    (\E i \in StartIds : starts[i].pc = "failed")
        => /\ _disposed
           /\ onClose = 1
           /\ _connectionData = null
           /\ \A c \in ConnIds : conns[c].via = "constructor" => conns[c].ended

\* ------------------------------------------------------------------ C8
\* what _cleanResources leaves behind when it ran on a connection that was
\* not closed yet
ClosedByThisStep ==
    /\ _disposed'
    /\ onClose' = 1
    /\ _connectionData' = null
    /\ _extensionHostProcess' = null
    /\ _connectionData # null => conns'[_connectionData].ended

\* C8: an 'exit' event with (code, signal) records exactly that pair for the
\* reconnection token and runs cleanup; an 'error' event runs cleanup; cleanup
\* of a connection not closed before ends the held socket, drops the process
\* reference and fires onClose; 'exit' and 'error' together fire it once.
C8_ExitRecordedThenCleanup ==
    /\ [][\A i \in StartIds, e \in ExitInputs :
            OnExit(i, e[1], e[2]) =>
                /\ exitInfo' = {[code |-> e[1], signal |-> e[2]]}
                /\ CleanupInvoked
                /\ _disposed' /\ onClose' = 1
                /\ ~_disposed => ClosedByThisStep]_vars
    /\ [][\A i \in StartIds :
            OnError(i) =>
                /\ CleanupInvoked
                /\ _disposed' /\ onClose' = 1
                /\ UNCHANGED exitInfo
                /\ ~_disposed => ClosedByThisStep]_vars

\* C8 witness: a process exited with code 1 and no signal while a socket was
\* held; the pair is recorded, the socket ended, onClose fired once, and an
\* 'error' event was handled as well
C8_Witness ==
    /\ exitInfo = {[code |-> 1, signal |-> NoSignal]}
    /\ ErrorEvents > 0
    /\ \E i \in StartIds : starts[i].exited
    /\ conns[1].ended
    /\ _disposed /\ onClose = 1 /\ cleanups = 2
    /\ _connectionData = null /\ _extensionHostProcess = null

\* ------------------------------------------------------------------ C9
\* C9: at most one forked process is running, and it is the one the
\* connection references.
C9_OneLiveProcess ==
    /\ Cardinality({i \in StartIds : Live(i)}) <= 1
    /\ \A i \in StartIds : Live(i) => _extensionHostProcess = i

\* ------------------------------------------------------------------ C10
B64Index(ch) == CHOOSE n \in 0..63 : B64(n) = ch

RECURSIVE fromBase64(_)
\* the bytes a base64 text stands for
fromBase64(chars) ==
    IF Len(chars) = 0 THEN << >>
    ELSE LET a == B64Index(chars[1])
             b == B64Index(chars[2])
             first == a * 4 + b \div 16
         IN  IF chars[3] = "=" THEN <<first>>
             ELSE LET c == B64Index(chars[3])
                      second == (b % 16) * 16 + c \div 4
                  IN  IF chars[4] = "=" THEN <<first, second>>
                      ELSE <<first, second,
                             (c % 4) * 64 + B64Index(chars[4])>>
                           \o fromBase64(SubSeq(chars, 5, Len(chars)))

\* the process the connection references is running and has posted ready
ProcessReady ==
    /\ _extensionHostProcess # null
    /\ Live(_extensionHostProcess)
    /\ starts[_extensionHostProcess].readySent

\* the pending _sendSocketToExtensionHost calls for ConnectionData c
PendingFor(c) == {h \in pending : h.conn = c}

\* C10: acceptReconnection on a connection whose process runs and is ready
\* sets _remoteAddress to the new address, stores nothing in _connectionData
\* and sends nothing yet; once the new socket is drained, one
\* VSCODE_EXTHOST_IPC_SOCKET message with that socket's handle and that
\* initial chunk goes to the process, with no further ready message needed;
\* it is sent once.
C10_ReconnectionHandedToReadyProcess ==
    /\ [][(AcceptStep /\ ProcessReady) =>
            LET c == Len(conns') IN
            /\ _remoteAddress' = RemoteAddress(c)
            /\ UNCHANGED <<_connectionData, sent, starts>>
            /\ conns'[c].via = "sent after ready"
            /\ pending' = pending \cup
                 {[proc |-> _extensionHostProcess, conn |-> c]}]_vars
    /\ [][\A h \in pending \ pending' :
            conns[h.conn].via = "sent after ready" =>
                /\ ~conns[h.conn].queued
                /\ UNCHANGED starts
                /\ Len(sent') = Len(sent) + 1
                /\ SubSeq(sent', 1, Len(sent)) = sent
                /\ LET m == sent'[Len(sent')] IN
                   /\ m.to = h.proc
                   /\ m.handle = rawSocket(conns[h.conn])
                   /\ m.msg.type = "VSCODE_EXTHOST_IPC_SOCKET"
                   /\ fromBase64(m.msg.initialDataChunk)
                        = conns[h.conn].initialDataChunk]_vars
    /\ [](\A c \in ConnIds :
            conns[c].via = "sent after ready" =>
                /\ Cardinality(MessagesFor(c)) + Cardinality(PendingFor(c)) = 1
                /\ _connectionData # c)

\* C10 witness: a reconnection accepted by a ready process has been handed
\* over, the remote address is the new one, and another, earlier handoff
\* (the one at readiness) is still waiting for its drain
C10_Witness ==
    \E c \in ConnIds :
        /\ conns[c].via = "sent after ready"
        /\ Len(conns[c].initialDataChunk) > 0
        /\ Cardinality(MessagesFor(c)) = 1
        /\ _remoteAddress = RemoteAddress(c)
        /\ _connectionData = null
        /\ PendingFor(1) # {}

\* --------------------------------------------------------------- relays
\* the relays the 'connection' handler of the server of start call i wired
RelaysVia(i) == {relay \in relays : relay.extHostSocket[1] = i}

\* C11: in listening mode the endpoint is single-use: when a relay is set up
\* its server is closed already, so at most one relay is ever established
\* for the connection (and no later attempt on the pipe name is accepted).
C11_SingleUseEndpoint ==
    /\ \A relay \in relays : starts[relay.extHostSocket[1]].server = "closed"
    /\ \A i \in StartIds : Cardinality(RelaysVia(i)) <= 1
    /\ Cardinality(relays) <= 1

\* a socket of relay r, or of its client, emits 'end', 'close' or 'error'
StopEvent(r) ==
    \/ \E event \in {"end", "close"} : SocketStop(r.conn, event)
    \/ \E event \in {"end", "close", "error"} : ExtHostStop(r, event)

\* relay r after the step
After(r) == {relay \in relays' : relay.extHostSocket = r.extHostSocket}

\* C12: an 'end' / 'close' of the client socket and an 'end' / 'close' /
\* 'error' of the extension host's socket tear the relay down: the client
\* socket is disposed and the extension host's socket destroyed, always
\* together; a relay that is torn down passes on no byte any more and no
\* later event changes it.
C12_TeardownSymmetric ==
    [][\A r \in relays :
        /\ After(r) # {}
        /\ \A relay \in After(r) :
              /\ relay.socketDisposed = relay.destroyed
              /\ StopEvent(r) => relay.socketDisposed /\ relay.destroyed
              /\ (r.socketDisposed \/ r.destroyed) => relay = r]_vars

\* C12 witness: a relay that passed its initial chunk on was torn down
C12_Witness ==
    \E relay \in relays :
        /\ relay.socketDisposed
        /\ relay.destroyed
        /\ Len(relay.toExtHost) > 0
        /\ ~_disposed

\* the 'error' or the 'exit' handler of a forked process runs
LifecycleStep ==
    \/ \E i \in StartIds : OnError(i)
    \/ \E i \in StartIds, e \in ExitInputs : OnExit(i, e[1], e[2])

\* C13: _disposed is set, a process killed and _onClose fired only by the
\* 'exit' and the 'error' handler of a forked process; no other step (an event
\* of a relayed socket, acceptReconnection,
\* shortenReconnectionGraceTimeIfNecessary, output of the process, its ready
\* message) changes any of the three.
C13_ClosureOnlyFromLifecycle ==
    [][(_disposed' # _disposed \/ kills' # kills \/ onClose' # onClose)
            => LifecycleStep]_vars

\* C13 witness: the client of a relay went away and the relay was torn down,
\* and the connection is not disposed, its process runs on
C13_Witness ==
    /\ \E relay \in relays : relay.socketDisposed
    /\ ~_disposed
    /\ onClose = 0
    /\ kills = << >>
    /\ _extensionHostProcess # null
    /\ Live(_extensionHostProcess)

\* C14: a call of shortenReconnectionGraceTimeIfNecessary sends exactly one
\* VSCODE_EXTHOST_IPC_REDUCE_GRACE_TIME message to the process the connection
\* refers to, and nothing when it refers to none; in both cases _disposed,
\* _remoteAddress, _extensionHostProcess and _connectionData are unchanged.
C14_ShortenSendsOneOrNone ==
    [][shortenCalls' = shortenCalls + 1 =>
        /\ IF _extensionHostProcess # null
           THEN /\ Len(sent') = Len(sent) + 1
                /\ SubSeq(sent', 1, Len(sent)) = sent
                /\ sent'[Len(sent')].to = _extensionHostProcess
                /\ sent'[Len(sent')].msg =
                     [type |-> "VSCODE_EXTHOST_IPC_REDUCE_GRACE_TIME"]
                /\ sent'[Len(sent')].handle = null
           ELSE sent' = sent
        /\ UNCHANGED <<_disposed, _remoteAddress, _extensionHostProcess,
                       _connectionData>>]_vars

\* C14 witness: a call made after the fork sent its one message
C14_Witness ==
    /\ shortenCalls = 1
    /\ _extensionHostProcess # null
    /\ Cardinality(ReduceMessages) = 1
    /\ Len(sent) = 1

\* C19: the message is determined by the kind of socket: for a NodeSocket
\* skipWebSocketFrames is TRUE, permessageDeflate FALSE and inflateBytes
\* empty; for a WebSocketNodeSocket skipWebSocketFrames is FALSE,
\* permessageDeflate is the socket's flag and inflateBytes decodes to the
\* socket's recorded bytes; in both cases the type is
\* VSCODE_EXTHOST_IPC_SOCKET and initialDataChunk decodes to the object's own
\* chunk.
C19_MessageByKindOfSocket ==
    handoff.pc = "returned" =>
        /\ Cardinality(handoff.message) = 1
        /\ \A m \in handoff.message :
              /\ m.type = "VSCODE_EXTHOST_IPC_SOCKET"
              /\ fromBase64(m.initialDataChunk) = handoff.cd.initialDataChunk
              /\ IF handoff.cd.socket.kind = "NodeSocket"
                 THEN /\ m.skipWebSocketFrames
                      /\ ~m.permessageDeflate
                      /\ m.inflateBytes = << >>
                 ELSE /\ ~m.skipWebSocketFrames
                      /\ m.permessageDeflate
                           = handoff.cd.socket.permessageDeflate
                      /\ fromBase64(m.inflateBytes)
                           = handoff.cd.socket.recordedInflateBytes

\* C19 witness: the message of a WebSocketNodeSocket without compression that
\* recorded bytes, with a chunk whose encoding is padded
C19_Witness ==
    /\ handoff.pc = "returned"
    /\ handoff.cd.socket.kind = "WebSocketNodeSocket"
    /\ ~handoff.cd.socket.permessageDeflate
    /\ Len(handoff.cd.socket.recordedInflateBytes) = 4
    /\ Len(handoff.cd.initialDataChunk) = 2
    /\ \E m \in handoff.message : Len(m.inflateBytes) = 8

\* --------------------------------------------------- buildUserEnvironment
\* the overlay of the call that is followed, before the PATH and BROWSER
\* assignments
Merged ==
    Overlay(build.process.env, build.userShellEnv, build.isDebug,
            build.startParamsEnv)

KeySet(env) == {env[i][1] : i \in 1..Len(env)}

\* the keys of env that equal 'PATH' ignoring case
PathLike(env) == {k \in KeySet(env) : toLowerCase(k) = toLowerCase("PATH")}

\* the keys the function assigns after the overlay
Assigned ==
    {CaseInsensitiveKey(Merged, "PATH")} \cup
    (IF build.environmentService.args["without-browser-env-var"]
     THEN {} ELSE {"BROWSER"})

\* C15 as stated: the result holds no null, a key the overlay maps to null is
\* absent from the result and a key the overlay maps to a string is in it.
C15_NullsOfOverlayRemoved ==
    build.pc = "returned" =>
        /\ \A i \in 1..Len(build.env) : build.env[i][2] # nullValue
        /\ \A k \in KeySet(Merged) :
              IF Get(Merged, k) = nullValue
              THEN k \notin KeySet(build.env)
              ELSE k \in KeySet(build.env)

\* C15 amended: the result holds no null; a key the overlay maps to null is
\* absent from the result and a key the overlay maps to a string is in it,
\* with that string, unless the key is one the function assigns after the
\* overlay (the PATH-equivalent key; BROWSER unless without-browser-env-var):
\* such a key is in the result with the assigned string.
C15_NullsRemoved ==
    build.pc = "returned" =>
        /\ \A i \in 1..Len(build.env) : build.env[i][2] # nullValue
        /\ \A k \in KeySet(Merged) \ Assigned :
              IF Get(Merged, k) = nullValue
              THEN k \notin KeySet(build.env)
              ELSE Get(build.env, k) = Get(Merged, k)
        /\ \A k \in Assigned :
              /\ k \in KeySet(build.env)
              /\ Get(build.env, k) \notin {nullValue, Get(Merged, k)}
        /\ KeySet(build.env) \subseteq KeySet(Merged) \cup Assigned

\* C15 witness: an override of null removed a variable of process.env
C15_Witness ==
    /\ build.pc = "returned"
    /\ \E k \in KeySet(build.process.env) \ Assigned :
          /\ Get(Merged, k) = nullValue
          /\ k \notin KeySet(build.env)

\* a string the function can have made by prepending the helper directory
HasHelperPrefix(value) ==
    \/ value = remoteCliBinFolder(build.environmentService)
    \/ \E old \in {"/bin", "/sh", "/o"} :
          value = remoteCliBinFolder(build.environmentService)
                      \o delimiter \o old

\* C16: the helper directory is prepended once: when the overlay has keys
\* equal to 'PATH' ignoring case, the first of them receives
\* helperDir + delimiter + oldValue, or helperDir alone when its value is
\* empty, and no key is added; when it has none, PATH is set to helperDir;
\* every other PATH-like key keeps its value, and exactly one PATH-like key of
\* the result begins with the helper directory.
C16_PathPrependedOnce ==
    build.pc = "returned" =>
        LET pathKey == CaseInsensitiveKey(Merged, "PATH")
            old == Get(Merged, pathKey)
            helperDir == remoteCliBinFolder(build.environmentService)
        IN  /\ Get(build.env, pathKey) =
                  IF Truthy(old) THEN helperDir \o delimiter \o old
                  ELSE helperDir
            /\ IF PathLike(Merged) = {}
               THEN PathLike(build.env) = {"PATH"}
               ELSE /\ pathKey \in PathLike(Merged)
                    /\ PathLike(build.env) \subseteq PathLike(Merged)
            /\ \A k \in PathLike(build.env) \ {pathKey} :
                  Get(build.env, k) = Get(Merged, k)
            /\ Cardinality({k \in PathLike(build.env) :
                              HasHelperPrefix(Get(build.env, k))}) = 1

\* C16 witness: the overlay had 'Path' and 'PATH', in this order; 'Path'
\* received the prefix and 'PATH' kept its value
C16_Witness ==
    /\ build.pc = "returned"
    /\ CaseInsensitiveKey(Merged, "PATH") = "Path"
    /\ PathLike(build.env) = {"Path", "PATH"}
    /\ Get(build.env, "Path") =
          remoteCliBinFolder(build.environmentService) \o delimiter \o "/bin"
    /\ Get(build.env, "PATH") = "/sh"

\* C17 as stated: the result maps every key the overrides set to a string to
\* that string.
C17_OverridesWin ==
    build.pc = "returned" =>
        \A k \in KeySet(build.startParamsEnv) :
            Get(build.startParamsEnv, k) # nullValue =>
                Get(build.env, k) = Get(build.startParamsEnv, k)

\* C17 amended: the result maps every key the overrides set to a string to
\* that string, whatever process.env, the shell environment and the fixed
\* flags hold for it, unless the key is one the function assigns after the
\* overlay (the PATH-equivalent key; BROWSER unless without-browser-env-var).
C17_OverridesWinButAssigned ==
    build.pc = "returned" =>
        \A k \in KeySet(build.startParamsEnv) \ Assigned :
            Get(build.startParamsEnv, k) # nullValue =>
                Get(build.env, k) = Get(build.startParamsEnv, k)

\* C17 witness: an override replaced the value of a fixed flag
C17_Witness ==
    /\ build.pc = "returned"
    /\ Get(build.startParamsEnv, "VSCODE_LOG_STACK") = "o"
    /\ Get(FixedFlags(build.isDebug), "VSCODE_LOG_STACK") = "false"
    /\ Get(build.env, "VSCODE_LOG_STACK") = "o"

\* C18: when withUserShellEnvironment is set and getResolvedShellEnv rejects,
\* the call goes on, writes the error to the log, and returns the environment
\* it returns for the same inputs without withUserShellEnvironment.
C18_ShellFailureDegrades ==
    /\ [][(/\ build.pc = "getResolvedShellEnv"
           /\ build.withUserShellEnvironment
           /\ build.process.shell.rejected)
            => /\ build'.pc = "env"
               /\ build'.logged = 1]_vars
    /\ []((/\ build.pc = "returned"
           /\ build.withUserShellEnvironment
           /\ build.process.shell.rejected)
            => /\ build.logged = 1
               /\ build.env =
                    buildUserEnvironment(build.startParamsEnv, FALSE,
                                         build.isDebug,
                                         build.environmentService,
                                         build.process))

\* C18 witness: the resolution had collected variables when it failed, and the
\* call returned an environment without them
C18_Witness ==
    /\ build.pc = "returned"
    /\ build.withUserShellEnvironment
    /\ build.process.shell.rejected
    /\ build.process.shell.env # << >>
    /\ build.logged = 1
    /\ Get(build.env, "X") = undefined

\* C20: the way a socket reaches the extension host is fixed by
\* _canSendSocket: without it no VSCODE_EXTHOST_IPC_SOCKET message (with the
\* socket's handle) is ever sent to a process, with it no pipe server is
\* opened.
C20_StrategyFixed ==
    /\ ~_canSendSocket => SocketMessages = {}
    /\ _canSendSocket => \A i \in StartIds : starts[i].server = "none"

\* ------------------------------------------------------------------ C21
\* the ConnectionData objects handed to a process: _sendSocketToExtensionHost
\* was called with it, or a relay was wired to its socket
HandedOver ==
    {c \in ConnIds :
        PendingFor(c) # {} \/ MessagesFor(c) # {} \/ RelaysOf(c) # {}}

\* C21: _connectionData refers to a ConnectionData only while it waits to be
\* delivered: once _sendSocketToExtensionHost was called with it (with
\* _canSendSocket) or a relay was wired to it (without), _connectionData does
\* not refer to it any more.
C21_HeldOnlyWhileWaiting ==
    _connectionData # null => _connectionData \notin HandedOver

\* ------------------------------------------------------------------ C22
RECURSIVE concat(_)
\* the bytes of a sequence of buffers, in order
concat(buffers) ==
    IF buffers = << >> THEN << >>
    ELSE Head(buffers) \o concat(Tail(buffers))

Signalled(i) ==
    /\ i \in StartIds
    /\ IF _canSendSocket THEN starts[i].readySent
       ELSE starts[i].server = "closed"

\* a socket reached the process of start call i: a VSCODE_EXTHOST_IPC_SOCKET
\* message was sent to it, or a relay was wired to its connection
Delivered(i) ==
    IF _canSendSocket THEN \E k \in SocketMessages : sent[k].to = i
    ELSE RelaysVia(i) # {}

\* C23: a process that signalled readiness and keeps running eventually
\* has a socket delivered to it (the socket's writes are flushed eventually),
\* and no ConnectionData is delivered more than once, by message or by relay.
C23_InitialDelivery ==
    /\ \A i \in 1..MaxCalls :
          Signalled(i) ~> (Delivered(i) \/ ~(i \in StartIds /\ Live(i)))
    /\ [](\A c \in ConnIds :
            Cardinality(MessagesFor(c)) + Cardinality(RelaysOf(c)) <= 1)

\* ------------------------------------------------------------------ C24
\* C24: once the connection is disposed no VSCODE_EXTHOST_IPC_SOCKET message
\* is sent any more, not even by a _sendSocketToExtensionHost call that was
\* waiting for its drain when _cleanResources ran; and the socket of every
\* such call has been ended.
C24_NoHandoffAfterClosure ==
    /\ [][_disposed => SocketMessages' = SocketMessages]_vars
    /\ [](_disposed => \A h \in pending : conns[h.conn].ended)

\* ------------------------------------------------------------------ C25
\* the ConnectionData whose socket the k-th message sent carries; the objects
\* are numbered in the order in which their connections were accepted
Carried(k) == CHOOSE c \in ConnIds : rawSocket(conns[c]) = sent[k].handle

\* C25: the VSCODE_EXTHOST_IPC_SOCKET messages are sent in the order in which
\* their connections were accepted, so the last one sent carries the most
\* recently accepted of the sockets handed over.
C25_HandoffsInAcceptanceOrder ==
    \A k1, k2 \in SocketMessages : k1 < k2 => Carried(k1) < Carried(k2)

\* ------------------------------------------------------------------ C26
\* the 'connection' handler of a named pipe server ran in this step
ConnectionHandled ==
    \E i \in StartIds :
        starts[i].server = "listening" /\ starts'[i].server = "closed"

\* C26: when the messageListener handles a ready message, or the 'connection'
\* handler a connection, _connectionData refers to a ConnectionData and
\* _extensionHostProcess to a running process, and the handler does not end
\* in a TypeError on a null reference.
C26_DeliveryHasOperands ==
    [][(ReadyHandled \/ ConnectionHandled) =>
          /\ _connectionData # null
          /\ _extensionHostProcess # null
          /\ Live(_extensionHostProcess)
          /\ rejections' = rejections]_vars

=============================================================================
